---- MODULE Spec2Model ----
(***************************************************************************)
(* Model of internal/ingress/annotations/authtls/main.go: the auth-tls     *)
(* annotation parser (authTLS.Parse) and Config.Equal.                     *)
(*                                                                         *)
(* Strings are sequences of one-character strings, so that the regular     *)
(* expressions and strings.EqualFold are computed character by character.  *)
(***************************************************************************)
EXTENDS Integers, Sequences, FiniteSets, TLC

VARIABLES ing, resolverOut, pc, out, heap, p1, p2, eq

vars == <<ing, resolverOut, pc, out, heap, p1, p2, eq>>

\* ------------------------------------------------------------------------
\* String values used in annotations
\* ------------------------------------------------------------------------
s_empty == <<>>
s_on == <<"o", "n">>
s_off == <<"o", "f", "f">>
s_optional == <<"o", "p", "t", "i", "o", "n", "a", "l">>
s_optional_no_ca == <<"o", "p", "t", "i", "o", "n", "a", "l", "_", "n", "o", "_", "c", "a">>
s_leaf == <<"l", "e", "a", "f">>
s_ON == <<"O", "N">>
s_offline == <<"o", "f", "f", "l", "i", "n", "e">>
s_only == <<"o", "n", "l", "y">>
s_ns_cert == <<"n", "s", "/", "c", "e", "r", "t">>
s_cert == <<"c", "e", "r", "t">>
s_abc == <<"a", "b", "c">>
s_true == <<"t", "r", "u", "e">>
s_yes == <<"y", "e", "s">>
s_errpage == <<"/", "e">>
s_http_r == <<"h", "t", "t", "p", ":", "/", "/", "r">>
s_https_r == <<"h", "t", "t", "p", "s", ":", "/", "/", "r">>
s_ftp_r == <<"f", "t", "p", ":", "/", "/", "r">>
s_htt_r == <<"h", "t", "t", ":", "/", "/", "r">>
s_shared_a_1 == <<"s", "h", "a", "r", "e", "d", ":", "a", ":", "1">>
s_shared_a == <<"s", "h", "a", "r", "e", "d", ":", "a">>
s_shared_ == <<"s", "h", "a", "r", "e", "d", ":">>
s_htt_css == <<"h", "t", "t", ":", "/", "/">>
s_http_css == <<"h", "t", "t", "p", ":", "/", "/">>
s_https_css == <<"h", "t", "t", "p", "s", ":", "/", "/">>

\* Bound on the magnitude of the auth-tls-verify-depth values tried.
MaxDepth == 2

Digits == <<"0", "1", "2", "3", "4", "5", "6", "7", "8", "9">>

\* decimal rendering of a one-digit integer, the way a user writes it
IntToStr(n) ==
  IF n < 0 THEN <<"-", Digits[(0 - n) + 1]>> ELSE <<Digits[n + 1]>>

\* ------------------------------------------------------------------------
\* Library helpers: substring search (unanchored regexp), prefix (anchored
\* regexp), case folding (strings.EqualFold)
\* ------------------------------------------------------------------------
Contains(s, p) ==
  \E i \in 1..(Len(s) - Len(p) + 1) : SubSeq(s, i, i + Len(p) - 1) = p

HasPrefix(s, p) ==
  /\ Len(s) >= Len(p)
  /\ SubSeq(s, 1, Len(p)) = p

UpperCase == <<"A", "B", "C", "D", "E", "F", "G", "H", "I", "J", "K", "L", "M",
               "N", "O", "P", "Q", "R", "S", "T", "U", "V", "W", "X", "Y", "Z">>
LowerCase == <<"a", "b", "c", "d", "e", "f", "g", "h", "i", "j", "k", "l", "m",
               "n", "o", "p", "q", "r", "s", "t", "u", "v", "w", "x", "y", "z">>

ToLower(c) ==
  IF \E k \in 1..26 : UpperCase[k] = c
  THEN LowerCase[CHOOSE k \in 1..26 : UpperCase[k] = c]
  ELSE c

EqualFold(s, t) ==
  /\ Len(s) = Len(t)
  /\ \A k \in 1..Len(s) : ToLower(s[k]) = ToLower(t[k])

\* ------------------------------------------------------------------------
\* const block and compiled patterns (main.go lines 33-45)
\* ------------------------------------------------------------------------
defaultAuthTLSDepth == 1
defaultAuthVerifyClient == s_on
defaultOCSP == s_off
defaultOCSPCache == s_off

\* regexp.MustCompile(`on|off|optional|optional_no_ca`).MatchString: unanchored
authVerifyClientRegex(s) ==
  \/ Contains(s, s_on)
  \/ Contains(s, s_off)
  \/ Contains(s, s_optional)
  \/ Contains(s, s_optional_no_ca)

\* regexp.MustCompile(`on|off|leaf`).MatchString: unanchored
authOCSPRegex(s) ==
  \/ Contains(s, s_on)
  \/ Contains(s, s_off)
  \/ Contains(s, s_leaf)

\* regexp.MustCompile(`off|shared:[^\:]+:[^\:]+`).MatchString: unanchored
authOCSPCacheRegex(s) ==
  \/ Contains(s, s_off)
  \/ \E i \in 1..Len(s) : \E j \in 1..Len(s) :
       /\ i + 6 <= Len(s)
       /\ SubSeq(s, i, i + 6) = s_shared_
       /\ j > i + 7
       /\ j + 1 <= Len(s)
       /\ s[j] = ":"
       /\ \A k \in (i + 7)..(j - 1) : s[k] # ":"
       /\ s[j + 1] # ":"

\* regexp.MustCompile(`^http?://`).MatchString: "htt", an optional "p", "://"
httpOnlyRegex(s) ==
  \/ HasPrefix(s, s_htt_css)
  \/ HasPrefix(s, s_http_css)

\* ------------------------------------------------------------------------
\* Data: certificates, Config, errors
\* ------------------------------------------------------------------------
ZeroCert == [Secret |-> s_empty, CAFileName |-> s_empty, CASHA |-> s_empty]
Cert1 == [Secret |-> s_ns_cert, CAFileName |-> <<"c", "a">>, CASHA |-> <<"1">>]
Cert2 == [Secret |-> s_ns_cert, CAFileName |-> <<"c", "a">>, CASHA |-> <<"2">>]

\* Config{} : the zero value of the struct
ZeroConfig ==
  [AuthSSLCert |-> ZeroCert,
   VerifyClient |-> s_empty,
   ValidationDepth |-> 0,
   ErrorPage |-> s_empty,
   PassCertToUpstream |-> FALSE,
   OCSP |-> s_empty,
   OCSPResponder |-> s_empty,
   OCSPCache |-> s_empty,
   AuthTLSError |-> s_empty]

NoErr == [kind |-> "nil", name |-> "", wraps |-> ""]
ErrMissingAnnotations == [kind |-> "MissingAnnotations", name |-> "", wraps |-> ""]
ErrInvalidContent == [kind |-> "InvalidContent", name |-> "", wraps |-> ""]
ErrNameNS == [kind |-> "InvalidFormat", name |-> "", wraps |-> ""]
ErrResolver == [kind |-> "ResolverError", name |-> "", wraps |-> ""]

\* ing_errors.NewLocationDenied / ing_errors.LocationDenied{Reason: e}
NewLocationDenied(reason) ==
  [kind |-> "LocationDenied", name |-> "", wraps |-> reason]

\* ing_errors.NewInvalidAnnotationConfiguration(name, reason)
NewInvalidAnnotationConfiguration(name) ==
  [kind |-> "InvalidAnnotationConfiguration", name |-> name, wraps |-> ""]

\* ------------------------------------------------------------------------
\* Collaborators: annotation accessors, name parser, certificate resolver
\* ------------------------------------------------------------------------
Absent == [set |-> FALSE, val |-> s_empty]
Present(s) == [set |-> TRUE, val |-> s]

GetStringAnnotation(key, i) ==
  IF i[key].set
  THEN [val |-> i[key].val, err |-> NoErr]
  ELSE [val |-> s_empty, err |-> ErrMissingAnnotations]

IsDigit(c) == \E d \in 1..10 : Digits[d] = c
DigitVal(c) == (CHOOSE d \in 1..10 : Digits[d] = c) - 1

RECURSIVE DigitsVal(_)
DigitsVal(s) ==
  IF Len(s) = 0 THEN 0
  ELSE 10 * DigitsVal(SubSeq(s, 1, Len(s) - 1)) + DigitVal(s[Len(s)])

\* strconv.Atoi on the annotation value
Atoi(s) ==
  LET body == IF Len(s) > 0 /\ s[1] \in {"-", "+"} THEN Tail(s) ELSE s
      ok == Len(body) > 0 /\ \A k \in 1..Len(body) : IsDigit(body[k])
  IN IF ~ok THEN [val |-> 0, ok |-> FALSE]
     ELSE [val |-> IF s[1] = "-" THEN 0 - DigitsVal(body) ELSE DigitsVal(body),
           ok |-> TRUE]

GetIntAnnotation(key, i) ==
  IF ~i[key].set THEN [val |-> 0, err |-> ErrMissingAnnotations]
  ELSE IF ~Atoi(i[key].val).ok THEN [val |-> 0, err |-> ErrInvalidContent]
  ELSE [val |-> Atoi(i[key].val).val, err |-> NoErr]

BoolTrue == {<<"1">>, <<"t">>, <<"T">>, s_true, <<"T", "R", "U", "E">>, <<"T", "r", "u", "e">>}
BoolFalse == {<<"0">>, <<"f">>, <<"F">>, <<"f", "a", "l", "s", "e">>,
              <<"F", "A", "L", "S", "E">>, <<"F", "a", "l", "s", "e">>}

GetBoolAnnotation(key, i) ==
  IF ~i[key].set THEN [val |-> FALSE, err |-> ErrMissingAnnotations]
  ELSE IF i[key].val \in BoolTrue THEN [val |-> TRUE, err |-> NoErr]
  ELSE IF i[key].val \in BoolFalse THEN [val |-> FALSE, err |-> NoErr]
  ELSE [val |-> FALSE, err |-> ErrInvalidContent]

\* k8s.ParseNameNS: exactly one "/" separates namespace and name
ParseNameNS(s) ==
  IF Cardinality({k \in 1..Len(s) : s[k] = "/"}) = 1 THEN NoErr ELSE ErrNameNS

\* a.r.GetAuthCertificate: the environment decides the outcome
ResolverFail == [ok |-> FALSE, cert |-> ZeroCert]
ResolverOk(c) == [ok |-> TRUE, cert |-> c]

GetAuthCertificate(name, r) ==
  IF r.ok THEN [cert |-> r.cert, err |-> NoErr]
  ELSE [cert |-> ZeroCert, err |-> ErrResolver]

\* record of one call made to a collaborator
Call(op, arg) == [op |-> op, arg |-> arg]

\* ------------------------------------------------------------------------
\* authTLS.Parse, statement by statement.  A frame holds the locals; done
\* is set by a return statement and every later statement is then skipped.
\* ------------------------------------------------------------------------
Frame0 ==
  [done |-> FALSE,
   config |-> ZeroConfig,
   tlsauthsecret |-> s_empty,
   retNil |-> FALSE,
   retCfg |-> ZeroConfig,
   err |-> NoErr,
   calls |-> <<>>]

Return(f, isNil, cfg, e) ==
  [f EXCEPT !.done = TRUE, !.retNil = isNil, !.retCfg = cfg, !.err = e]

Logged(f, op, arg) == [f EXCEPT !.calls = Append(@, Call(op, arg))]

\* lines 112-115
StepSecret(f, i) ==
  IF f.done THEN f
  ELSE LET g == GetStringAnnotation("auth-tls-secret", i)
           f1 == Logged(f, "GetStringAnnotation", "auth-tls-secret")
       IN IF g.err # NoErr
          THEN Return(f1, FALSE, ZeroConfig, g.err)
          ELSE [f1 EXCEPT !.tlsauthsecret = g.val]

\* a variant that reports nothing and carries on when the reference is malformed
StepNameNS_NoReturn(f) ==
  IF f.done THEN f
  ELSE Logged(f, "ParseNameNS", "")

\* lines 117-120
StepNameNS(f) ==
  IF f.done THEN f
  ELSE LET e == ParseNameNS(f.tlsauthsecret)
           f1 == Logged(f, "ParseNameNS", "")
       IN IF e # NoErr
          THEN Return(f1, FALSE, ZeroConfig, NewLocationDenied(e.kind))
          ELSE f1

\* a variant that fails open: a resolver error leaves the certificate empty
StepResolve_FailOpen(f, r) ==
  IF f.done THEN f
  ELSE LET g == GetAuthCertificate(f.tlsauthsecret, r)
           f1 == Logged(f, "GetAuthCertificate", "")
       IN [f1 EXCEPT !.config.AuthSSLCert = g.cert]

\* lines 122-127
StepResolve(f, r) ==
  IF f.done THEN f
  ELSE LET g == GetAuthCertificate(f.tlsauthsecret, r)
           f1 == Logged(f, "GetAuthCertificate", "")
       IN IF g.err # NoErr
          THEN Return(f1, FALSE, ZeroConfig, NewLocationDenied(g.err.kind))
          ELSE [f1 EXCEPT !.config.AuthSSLCert = g.cert]

\* lines 129-132
StepVerifyClient(f, i) ==
  IF f.done THEN f
  ELSE LET g == GetStringAnnotation("auth-tls-verify-client", i)
           f1 == Logged(f, "GetStringAnnotation", "auth-tls-verify-client")
       IN IF g.err # NoErr \/ ~authVerifyClientRegex(g.val)
          THEN [f1 EXCEPT !.config.VerifyClient = defaultAuthVerifyClient]
          ELSE [f1 EXCEPT !.config.VerifyClient = g.val]

\* a variant that also replaces negative depths by the default
StepValidationDepth_NonPositive(f, i) ==
  IF f.done THEN f
  ELSE LET g == GetIntAnnotation("auth-tls-verify-depth", i)
           f1 == Logged(f, "GetIntAnnotation", "auth-tls-verify-depth")
       IN IF g.err # NoErr \/ g.val <= 0
          THEN [f1 EXCEPT !.config.ValidationDepth = defaultAuthTLSDepth]
          ELSE [f1 EXCEPT !.config.ValidationDepth = g.val]

\* lines 134-137
StepValidationDepth(f, i) ==
  IF f.done THEN f
  ELSE LET g == GetIntAnnotation("auth-tls-verify-depth", i)
           f1 == Logged(f, "GetIntAnnotation", "auth-tls-verify-depth")
       IN IF g.err # NoErr \/ g.val = 0
          THEN [f1 EXCEPT !.config.ValidationDepth = defaultAuthTLSDepth]
          ELSE [f1 EXCEPT !.config.ValidationDepth = g.val]

\* lines 139-142
StepErrorPage(f, i) ==
  IF f.done THEN f
  ELSE LET g == GetStringAnnotation("auth-tls-error-page", i)
           f1 == Logged(f, "GetStringAnnotation", "auth-tls-error-page")
       IN IF g.err # NoErr
          THEN [f1 EXCEPT !.config.ErrorPage = s_empty]
          ELSE [f1 EXCEPT !.config.ErrorPage = g.val]

\* lines 144-147
StepPassCert(f, i) ==
  IF f.done THEN f
  ELSE LET g == GetBoolAnnotation("auth-tls-pass-certificate-to-upstream", i)
           f1 == Logged(f, "GetBoolAnnotation", "auth-tls-pass-certificate-to-upstream")
       IN IF g.err # NoErr
          THEN [f1 EXCEPT !.config.PassCertToUpstream = FALSE]
          ELSE [f1 EXCEPT !.config.PassCertToUpstream = g.val]

\* lines 149-152
StepOCSP(f, i) ==
  IF f.done THEN f
  ELSE LET g == GetStringAnnotation("auth-tls-ocsp", i)
           f1 == Logged(f, "GetStringAnnotation", "auth-tls-ocsp")
       IN IF g.err # NoErr \/ ~authOCSPRegex(g.val)
          THEN [f1 EXCEPT !.config.OCSP = defaultOCSP]
          ELSE [f1 EXCEPT !.config.OCSP = g.val]

\* a variant that rejects only an explicit "off"
OCSPRequiresVerifyClient_OffOnly(cfg) ==
  EqualFold(cfg.OCSP, s_on) /\ EqualFold(cfg.VerifyClient, s_off)

\* line 155: the condition of the cross-field check
OCSPRequiresVerifyClient(cfg) ==
  EqualFold(cfg.OCSP, s_on) /\ ~EqualFold(cfg.VerifyClient, s_on)

\* a variant without the cross-field check
StepCrossField_Skip(f) == f

\* lines 154-157
StepCrossField(f) ==
  IF f.done THEN f
  ELSE IF OCSPRequiresVerifyClient(f.config)
       THEN Return(f, TRUE, ZeroConfig, NewInvalidAnnotationConfiguration("auth-tls-ocsp"))
       ELSE f

\* lines 159-162
StepOCSPResponder(f, i) ==
  IF f.done THEN f
  ELSE LET g == GetStringAnnotation("auth-tls-ocsp-responder", i)
           f1 == Logged(f, "GetStringAnnotation", "auth-tls-ocsp-responder")
       IN IF g.err # NoErr \/ ~httpOnlyRegex(g.val)
          THEN [f1 EXCEPT !.config.OCSPResponder = s_empty]
          ELSE [f1 EXCEPT !.config.OCSPResponder = g.val]

\* lines 164-167
StepOCSPCache(f, i) ==
  IF f.done THEN f
  ELSE LET g == GetStringAnnotation("auth-tls-ocsp-cache", i)
           f1 == Logged(f, "GetStringAnnotation", "auth-tls-ocsp-cache")
       IN IF g.err # NoErr \/ ~authOCSPCacheRegex(g.val)
          THEN [f1 EXCEPT !.config.OCSPCache = defaultOCSPCache]
          ELSE [f1 EXCEPT !.config.OCSPCache = g.val]

\* line 169
StepReturn(f) ==
  IF f.done THEN f ELSE Return(f, FALSE, f.config, NoErr)

\* lines 108-170: the whole function
ParseFrame(i, r) ==
  LET f1 == StepSecret(Frame0, i)
      f2 == StepNameNS(f1)
      f3 == StepResolve(f2, r)
      f4 == StepVerifyClient(f3, i)
      f5 == StepValidationDepth(f4, i)
      f6 == StepErrorPage(f5, i)
      f7 == StepPassCert(f6, i)
      f8 == StepOCSP(f7, i)
      f9 == StepCrossField(f8)
      f10 == StepOCSPResponder(f9, i)
      f11 == StepOCSPCache(f10, i)
  IN StepReturn(f11)

\* ------------------------------------------------------------------------
\* Inputs of Parse
\* ------------------------------------------------------------------------
Keys ==
  {"auth-tls-secret", "auth-tls-verify-client", "auth-tls-verify-depth",
   "auth-tls-error-page", "auth-tls-pass-certificate-to-upstream",
   "auth-tls-ocsp", "auth-tls-ocsp-responder", "auth-tls-ocsp-cache"}

SecretValues == {Absent, Present(s_ns_cert), Present(s_cert)}
VerifyClientValues ==
  {Absent, Present(s_on), Present(s_off), Present(s_optional),
   Present(s_optional_no_ca), Present(s_ON), Present(s_offline)}
DepthValues ==
  {Absent, Present(s_abc)} \cup {Present(IntToStr(n)) : n \in (0 - MaxDepth)..MaxDepth}
ErrorPageValues == {Absent, Present(s_errpage)}
PassCertValues == {Absent, Present(s_true), Present(s_yes)}
OCSPValues == {Absent, Present(s_on), Present(s_off), Present(s_leaf), Present(s_only)}
ResponderValues ==
  {Absent, Present(s_http_r), Present(s_https_r), Present(s_ftp_r), Present(s_htt_r)}
CacheValues == {Absent, Present(s_off), Present(s_shared_a_1), Present(s_shared_a)}

MkIngress(sec, vc, d, ep, pcu, oc, rs, ca) ==
  [k \in Keys |->
     CASE k = "auth-tls-secret" -> sec
       [] k = "auth-tls-verify-client" -> vc
       [] k = "auth-tls-verify-depth" -> d
       [] k = "auth-tls-error-page" -> ep
       [] k = "auth-tls-pass-certificate-to-upstream" -> pcu
       [] k = "auth-tls-ocsp" -> oc
       [] k = "auth-tls-ocsp-responder" -> rs
       [] k = "auth-tls-ocsp-cache" -> ca]

ResolverOutcomes == {ResolverFail, ResolverOk(Cert1)}

\* ------------------------------------------------------------------------
\* Config.Equal (lines 61-95).  A *Config is 0 (nil) or an index into heap.
\* ------------------------------------------------------------------------
\* (*AuthSSLCert).Equal of the resolver package: field-wise comparison
AuthSSLCertEqual(c1, c2) ==
  /\ c1.Secret = c2.Secret
  /\ c1.CAFileName = c2.CAFileName
  /\ c1.CASHA = c2.CASHA

\* a variant that forgets the last comparison
ConfigEqual_NoOCSPCache(h, a, b) ==
  IF a = b THEN "true"
  ELSE IF a = 0 \/ b = 0 THEN "false"
  ELSE IF ~AuthSSLCertEqual(h[a].AuthSSLCert, h[b].AuthSSLCert) THEN "false"
  ELSE IF h[a].VerifyClient # h[b].VerifyClient THEN "false"
  ELSE IF h[a].ValidationDepth # h[b].ValidationDepth THEN "false"
  ELSE IF h[a].ErrorPage # h[b].ErrorPage THEN "false"
  ELSE IF h[a].PassCertToUpstream # h[b].PassCertToUpstream THEN "false"
  ELSE IF h[a].OCSP # h[b].OCSP THEN "false"
  ELSE IF h[a].OCSPResponder # h[b].OCSPResponder THEN "false"
  ELSE "true"

ConfigEqual(h, a, b) ==
  IF a = b THEN "true"
  ELSE IF a = 0 \/ b = 0 THEN "false"
  ELSE IF ~AuthSSLCertEqual(h[a].AuthSSLCert, h[b].AuthSSLCert) THEN "false"
  ELSE IF h[a].VerifyClient # h[b].VerifyClient THEN "false"
  ELSE IF h[a].ValidationDepth # h[b].ValidationDepth THEN "false"
  ELSE IF h[a].ErrorPage # h[b].ErrorPage THEN "false"
  ELSE IF h[a].PassCertToUpstream # h[b].PassCertToUpstream THEN "false"
  ELSE IF h[a].OCSP # h[b].OCSP THEN "false"
  ELSE IF h[a].OCSPResponder # h[b].OCSPResponder THEN "false"
  ELSE IF h[a].OCSPCache # h[b].OCSPCache THEN "false"
  ELSE "true"

\* two configurations that differ in every field
ConfigA ==
  [AuthSSLCert |-> Cert1,
   VerifyClient |-> s_on,
   ValidationDepth |-> 1,
   ErrorPage |-> s_empty,
   PassCertToUpstream |-> FALSE,
   OCSP |-> s_off,
   OCSPResponder |-> s_empty,
   OCSPCache |-> s_off,
   AuthTLSError |-> s_empty]

ConfigB ==
  [AuthSSLCert |-> Cert2,
   VerifyClient |-> s_optional,
   ValidationDepth |-> 2,
   ErrorPage |-> s_errpage,
   PassCertToUpstream |-> TRUE,
   OCSP |-> s_leaf,
   OCSPResponder |-> s_http_r,
   OCSPCache |-> s_shared_a_1,
   AuthTLSError |-> s_abc]

FieldNames == DOMAIN ConfigA

\* the configuration that takes the fields in S from ConfigB, the rest from ConfigA
Mix(S) == [fld \in FieldNames |-> IF fld \in S THEN ConfigB[fld] ELSE ConfigA[fld]]

\* the other value of one field
Toggle(cfg, fld) ==
  [cfg EXCEPT ![fld] = IF @ = ConfigA[fld] THEN ConfigB[fld] ELSE ConfigA[fld]]

Pointers == 0..2

\* ------------------------------------------------------------------------
\* Specification of Parse: a rule and a resolver outcome, then one call
\* ------------------------------------------------------------------------
EqIdle == [called |-> FALSE, fwd |-> "none", bwd |-> "none", refl |-> "none"]

Init ==
  /\ \E sec \in SecretValues, vc \in VerifyClientValues, d \in DepthValues,
        ep \in ErrorPageValues, pcu \in PassCertValues, oc \in OCSPValues,
        rs \in ResponderValues, ca \in CacheValues :
       ing = MkIngress(sec, vc, d, ep, pcu, oc, rs, ca)
  /\ resolverOut \in ResolverOutcomes
  /\ pc = "start"
  /\ out = Frame0
  /\ heap = <<ZeroConfig, ZeroConfig>>
  /\ p1 = 0
  /\ p2 = 0
  /\ eq = EqIdle

Parse ==
  /\ pc = "start"
  /\ out' = ParseFrame(ing, resolverOut)
  /\ pc' = "done"
  /\ UNCHANGED <<ing, resolverOut, heap, p1, p2, eq>>

Next == Parse

Spec == Init /\ [][Next]_vars

\* ------------------------------------------------------------------------
\* Specification of Config.Equal: two configurations, two pointers, calls of
\* Equal in both argument orders, and changes of single fields in between
\* ------------------------------------------------------------------------
InitEqual ==
  /\ ing = MkIngress(Absent, Absent, Absent, Absent, Absent, Absent, Absent, Absent)
  /\ resolverOut = ResolverFail
  /\ pc = "idle"
  /\ out = Frame0
  /\ \E base \in {{}, FieldNames}, S \in SUBSET FieldNames :
       heap = <<Mix(base), Mix(S)>>
  /\ p1 \in Pointers
  /\ p2 \in Pointers
  /\ eq = EqIdle

CallEqual ==
  /\ ~eq.called
  /\ eq' = [called |-> TRUE,
            fwd |-> ConfigEqual(heap, p1, p2),
            bwd |-> ConfigEqual(heap, p2, p1),
            refl |-> ConfigEqual(heap, p1, p1)]
  /\ UNCHANGED <<ing, resolverOut, pc, out, heap, p1, p2>>

ChangeField ==
  /\ eq.called
  /\ \E fld \in FieldNames : heap' = [heap EXCEPT ![2] = Toggle(@, fld)]
  /\ eq' = EqIdle
  /\ UNCHANGED <<ing, resolverOut, pc, out, p1, p2>>

NextEqual == CallEqual \/ ChangeField

SpecEqual == InitEqual /\ [][NextEqual]_vars

\* ------------------------------------------------------------------------
\* Properties
\* ------------------------------------------------------------------------
Done == pc = "done"
Returned == Done /\ out.err = NoErr /\ ~out.retNil

SecretAnn == ing["auth-tls-secret"]
SecretMissing == ~SecretAnn.set
SecretMalformed == SecretAnn.set /\ ParseNameNS(SecretAnn.val) # NoErr
ResolverFailed == SecretAnn.set /\ ParseNameNS(SecretAnn.val) = NoErr /\ ~resolverOut.ok
SecretResolved == SecretAnn.set /\ ParseNameNS(SecretAnn.val) = NoErr /\ resolverOut.ok

VerifyClientEnum == {s_on, s_off, s_optional, s_optional_no_ca}
OCSPEnum == {s_on, s_off, s_leaf}

\* C1 (as stated): a returned configuration whose OCSP is not "off"
\* (case-insensitively) has VerifyClient "on" (case-insensitively).  Stated
\* for the configurations whose OCSP is one of on, off, leaf, so that a
\* violation does not rest on what the OCSP pattern lets through.
C1_OcspNotOffNeedsVerifyOn ==
  (Returned /\ out.retCfg.OCSP \in OCSPEnum) =>
    (~EqualFold(out.retCfg.OCSP, s_off) => EqualFold(out.retCfg.VerifyClient, s_on))

\* C1 (amended): a returned configuration whose OCSP is "on"
\* (case-insensitively) has VerifyClient "on" (case-insensitively).
C1_OcspOnNeedsVerifyOn ==
  Returned =>
    (EqualFold(out.retCfg.OCSP, s_on) => EqualFold(out.retCfg.VerifyClient, s_on))

C1_Witness ==
  /\ Returned
  /\ ing["auth-tls-ocsp"] = Present(s_on)
  /\ out.retCfg.OCSP = s_on
  /\ out.retCfg.VerifyClient = s_on

\* C2 (as stated): a missing secret annotation, a malformed reference and a
\* failed resolver call all end in a "location denied" error with no
\* configuration (nil or the empty Config).
C2_AllSecretFailuresLocationDenied ==
  (Done /\ (SecretMissing \/ SecretMalformed \/ ResolverFailed)) =>
    /\ out.err.kind = "LocationDenied"
    /\ (out.retNil \/ out.retCfg = ZeroConfig)

\* C2 (amended): a missing secret annotation ends in the accessor's own error,
\* passed on unchanged; a malformed reference and a failed resolver call end in
\* a "location denied" error; in all three cases the value returned with the
\* error is the empty Config.
C2_SecretFailures ==
  Done =>
    /\ SecretMissing =>
         /\ out.err = GetStringAnnotation("auth-tls-secret", ing).err
         /\ out.err.kind \notin {"nil", "LocationDenied"}
         /\ out.retCfg = ZeroConfig
    /\ SecretMalformed =>
         /\ out.err.kind = "LocationDenied"
         /\ out.retCfg = ZeroConfig
    /\ ResolverFailed =>
         /\ out.err.kind = "LocationDenied"
         /\ out.retCfg = ZeroConfig

C2_Witness ==
  /\ Done
  /\ ResolverFailed
  /\ out.err = NewLocationDenied("ResolverError")
  /\ out.retCfg = ZeroConfig

\* C3: with the certificate resolved, OCSP "on" after defaulting and
\* VerifyClient other than "on" after defaulting end in an "invalid annotation
\* configuration" error naming auth-tls-ocsp, whatever the other annotations
\* hold; auth-tls-verify-client unset with auth-tls-ocsp "on" succeeds with
\* VerifyClient = "on" and OCSP = "on".
C3_CrossFieldError ==
  (Done /\ SecretResolved) =>
    /\ (out.config.OCSP = s_on /\ out.config.VerifyClient # s_on) =>
         /\ out.err = NewInvalidAnnotationConfiguration("auth-tls-ocsp")
         /\ out.retNil
    /\ (~ing["auth-tls-verify-client"].set /\ ing["auth-tls-ocsp"] = Present(s_on)) =>
         /\ out.err = NoErr
         /\ ~out.retNil
         /\ out.retCfg.VerifyClient = s_on
         /\ out.retCfg.OCSP = s_on

C3_Witness ==
  /\ Done
  /\ SecretResolved
  /\ ing["auth-tls-verify-client"] = Present(s_optional)
  /\ ing["auth-tls-ocsp"] = Present(s_on)
  /\ ing["auth-tls-ocsp-responder"] = Present(s_ftp_r)
  /\ out.err.kind = "InvalidAnnotationConfiguration"

\* C4: Parse returns an error exactly when the secret reference cannot be
\* extracted, parsed or resolved, or the cross-field check fails; and with the
\* certificate resolved, an auth-tls-verify-client value that is absent or is
\* none of on, off, optional, optional_no_ca never leads to an error (nor does
\* any value of the depth, error-page, pass-certificate, responder and cache
\* annotations).
C4_ErrorIffFatal ==
  Done =>
    /\ (out.err # NoErr) <=>
         \/ SecretMissing
         \/ SecretMalformed
         \/ ResolverFailed
         \/ (SecretResolved /\ OCSPRequiresVerifyClient(out.config))
    /\ (SecretResolved
        /\ (~ing["auth-tls-verify-client"].set
            \/ ing["auth-tls-verify-client"].val \notin VerifyClientEnum))
         => out.err = NoErr

\* C5: VerifyClient of a returned configuration is one of on, off, optional,
\* optional_no_ca: the annotation value when it is one of the four, "on"
\* otherwise.
C5_VerifyClientEnum ==
  Returned =>
    LET a == ing["auth-tls-verify-client"]
    IN /\ out.retCfg.VerifyClient \in VerifyClientEnum
       /\ out.retCfg.VerifyClient =
            IF a.set /\ a.val \in VerifyClientEnum THEN a.val ELSE s_on

\* C6: OCSP of a returned configuration is one of on, off, leaf: the
\* annotation value when it is one of the three, "off" otherwise.
C6_OCSPEnum ==
  Returned =>
    LET a == ing["auth-tls-ocsp"]
    IN /\ out.retCfg.OCSP \in OCSPEnum
       /\ out.retCfg.OCSP = IF a.set /\ a.val \in OCSPEnum THEN a.val ELSE s_off

\* C7: OCSPResponder of a returned configuration is the annotation value when
\* that value begins with "http://" or "https://", and empty otherwise.
C7_ResponderHttpOrHttps ==
  Returned =>
    LET a == ing["auth-tls-ocsp-responder"]
    IN out.retCfg.OCSPResponder =
         IF a.set /\ (HasPrefix(a.val, s_http_css) \/ HasPrefix(a.val, s_https_css))
         THEN a.val
         ELSE s_empty

\* C8: ValidationDepth of a returned configuration is 1 when the annotation
\* is absent, is not an integer or is zero, and the annotation's integer
\* otherwise, negative ones included; it is never 0.
C8_ValidationDepth ==
  Returned =>
    LET a == ing["auth-tls-verify-depth"]
    IN /\ ~a.set => out.retCfg.ValidationDepth = 1
       /\ a = Present(s_abc) => out.retCfg.ValidationDepth = 1
       /\ \A n \in (0 - MaxDepth)..MaxDepth :
            a = Present(IntToStr(n)) =>
              out.retCfg.ValidationDepth = IF n = 0 THEN 1 ELSE n
       /\ out.retCfg.ValidationDepth # 0

C8_Witness ==
  /\ Returned
  /\ ing["auth-tls-verify-depth"] = Present(IntToStr(0 - MaxDepth))
  /\ out.retCfg.ValidationDepth = 0 - MaxDepth

\* C9: Equal is total, reflexive and symmetric over nil and present
\* configurations: nil equals nil, nil differs from every present
\* configuration in both orders, and two present configurations are equal
\* exactly when their certificates are equal by the certificate's own
\* equality and the seven compared fields are equal.
C9_EqualRelation ==
  eq.called =>
    /\ eq.fwd \in {"true", "false"}
    /\ eq.bwd \in {"true", "false"}
    /\ eq.refl = "true"
    /\ eq.fwd = eq.bwd
    /\ (p1 = 0 /\ p2 = 0) => eq.fwd = "true"
    /\ ((p1 = 0) # (p2 = 0)) => (eq.fwd = "false" /\ eq.bwd = "false")
    /\ (p1 # 0 /\ p2 # 0) =>
         ((eq.fwd = "true") <=>
            /\ AuthSSLCertEqual(heap[p1].AuthSSLCert, heap[p2].AuthSSLCert)
            /\ \A fld \in {"VerifyClient", "ValidationDepth", "ErrorPage",
                           "PassCertToUpstream", "OCSP", "OCSPResponder",
                           "OCSPCache"} : heap[p1][fld] = heap[p2][fld])

C9_Witness ==
  /\ eq.called
  /\ p1 = 1
  /\ p2 = 2
  /\ heap[1] = ConfigA
  /\ heap[2] = Toggle(ConfigA, "OCSPCache")
  /\ eq.fwd = "false"
  /\ eq.bwd = "false"

\* C10: the calls of one Parse happen in a fixed order without repetition:
\* auth-tls-secret is read first; the resolver is called at most once and only
\* after the reference passed the syntax check; no other annotation is read
\* before the resolver has succeeded; a missing or malformed reference ends
\* Parse with no resolver call and no other read.
C10_CallOrder ==
  Done =>
    LET c == out.calls
        IsRead(k) == c[k].op \in {"GetStringAnnotation", "GetIntAnnotation", "GetBoolAnnotation"}
        Resolves == {k \in 1..Len(c) : c[k].op = "GetAuthCertificate"}
        OtherReads == {k \in 1..Len(c) : IsRead(k) /\ c[k].arg # "auth-tls-secret"}
    IN /\ Len(c) >= 1
       /\ c[1] = Call("GetStringAnnotation", "auth-tls-secret")
       /\ \A j, k \in 1..Len(c) : j # k => c[j] # c[k]
       /\ Cardinality(Resolves) <= 1
       /\ \A k \in Resolves :
            /\ \E j \in 1..(k - 1) : c[j].op = "ParseNameNS"
            /\ SecretAnn.set
            /\ ParseNameNS(SecretAnn.val) = NoErr
       /\ \A k \in OtherReads : \E j \in Resolves : j < k /\ resolverOut.ok
       /\ (SecretMissing \/ SecretMalformed) =>
            /\ out.err # NoErr
            /\ Resolves = {}
            /\ OtherReads = {}
       /\ ResolverFailed => (out.err # NoErr /\ OtherReads = {})

C10_Witness ==
  /\ Done
  /\ SecretMalformed
  /\ out.calls = <<Call("GetStringAnnotation", "auth-tls-secret"), Call("ParseNameNS", "")>>

====
